---- MODULE Spec2Model ----
(***************************************************************************)
(* A model of geekingfrog/raytracing: the worker pool and the consumer of  *)
(* src/main.rs (specification Spec, where further WorkerSpecs may be sent; *)
(* SpecRun, the run as main.rs sends it, for any number of workers;        *)
(* SpecRunFair, that run under fair scheduling while the window is open;   *)
(* SpecConsume, update applied to any queue), sphere intersection of       *)
(* src/material.rs and src/ray.rs (SpecHit), the light integrator          *)
(* ray_color of src/main.rs (SpecRayColor) and the camera's image size of  *)
(* src/camera.rs (SpecCamera).                                             *)
(*                                                                         *)
(* Reals are modelled exactly: a length is an integer number of tenths, a  *)
(* ray parameter t and a colour channel are fractions num/den.  Inputs are *)
(* drawn from sets on which every square root the code takes is exact, so  *)
(* that the f64 arithmetic of the code and the arithmetic here agree.      *)
(***************************************************************************)
EXTENDS Integers, Sequences, FiniteSets, TLC

(* ----------------------------- bounds --------------------------------- *)
NWorkers   == 2      \* NUM_WORKER (main.rs 184-187), 6 by default
MaxWidth   == 2      \* image widths 0..MaxWidth
MaxHeight  == 2      \* image heights 0..MaxHeight
MaxGen     == 1      \* generations 0..MaxGen carried by a WorkerSpec
MaxRespec  == 1      \* WorkerSpecs sent after the initial ones
MaxSpheres == 2      \* spheres of a collection handed to hit
MaxCamWidth == 8     \* image widths 0..MaxCamWidth handed to Camera::new
MaxAspect  == 4      \* aspect ratios n/d with n, d in 1..MaxAspect

Workers == 0 .. (NWorkers - 1)
Colors  == {"c0", "c1"}          \* the Color32 values a pixel can get
LIGHT_RED == "LIGHT_RED"         \* the placeholder of a pixel not yet rendered

VARIABLES
  app_state,      \* MyApp.state: "Starting", "Computing"; "Dropped" after run_native
  current_gen,    \* MyApp.current_gen
  pixels,         \* AppState::Computing.pixels, index image_width*y + x
  image_width,    \* camera.image_width
  image_height,   \* camera.image_height
  command_chan,   \* per worker, the WorkerSpecs queued on its command channel
  cmd_open,       \* the command Senders (MyApp.commands) are alive
  result_chan,    \* results sent and not yet received
  result_open,    \* the result Receiver (MyApp.result_channel) is alive
  worker,         \* per worker, its position in Worker::start and its spec
  respecs,        \* number of WorkerSpecs sent after the initial ones
  sent,           \* history: per worker, the results it has sent, in the order of its sends
  h_pc,           \* SpecHit: "in" before the call of hit, "out" after it
  h_ray,          \* the ray handed to hit
  h_tmin,         \* tmin handed to hit
  h_tmax,         \* tmax handed to hit
  h_world,        \* the Vec<Sphere> hit is called on
  h_hit,          \* the Option<HitRecord> it returned
  cam_pc,         \* SpecCamera: "in" before Camera::new, "out" after it
  cam_aspect,     \* aspect_ratio handed to Camera::new
  cam_width,      \* image_width handed to Camera::new
  cam_height,     \* Camera.image_height
  rc_pc,          \* SpecRayColor: "call" at the entry of a call of ray_color, "done" at the end
  rc_world,       \* the world ray_color is called on
  rc_max_depth,   \* the value of MAX_DEPTH
  rc_ray,         \* the ray of the innermost call
  rc_depth,       \* the depth of the innermost call
  rc_atten,       \* the product of the attenuations of the calls around it
  rc_leaf,        \* the Color the innermost call returned
  rc_result       \* the Color the call at depth 0 returned

vars_conc == <<app_state, current_gen, pixels, image_width, image_height,
               command_chan, cmd_open, result_chan, result_open, worker, respecs, sent>>

vars_hit == <<h_pc, h_ray, h_tmin, h_tmax, h_world, h_hit>>

vars_cam == <<cam_pc, cam_aspect, cam_width, cam_height>>

vars_rc == <<rc_pc, rc_world, rc_max_depth, rc_ray, rc_depth, rc_atten, rc_leaf, rc_result>>

vars == <<vars_conc, vars_hit, vars_cam, vars_rc>>

(* ------------------------------ numbers -------------------------------- *)

\* a fraction num/den with den >= 0; 1/0 is f64::INFINITY, 0/0 is NaN
Frac(n, d) == [num |-> n, den |-> d]

INFINITY == Frac(1, 0)

\* a < b on f64, for fractions that are not NaN
Lt(a, b) == a.num * b.den < b.num * a.den

FracEq(a, b) == a.num * b.den = b.num * a.den /\ (a.den = 0) = (b.den = 0)

Abs(n) == IF n < 0 THEN -n ELSE n

\* the greatest common divisor of m and n
GCDOf[m \in Nat, n \in Nat] == IF n = 0 THEN m ELSE GCDOf[n, m % n]

GCD(m, n) == GCDOf[m, n]

\* the largest s in lo..hi with s*s <= n
SqrtIn[n \in Nat, lo \in Nat, hi \in Nat] ==
  IF lo = hi THEN lo
  ELSE IF ((lo + hi + 1) \div 2) * ((lo + hi + 1) \div 2) <= n
       THEN SqrtIn[n, (lo + hi + 1) \div 2, hi]
       ELSE SqrtIn[n, lo, ((lo + hi + 1) \div 2) - 1]

\* f64::sqrt on the inputs of the model, where it is exact
Sqrt(n) == SqrtIn[n, 0, IF n < 46340 THEN n ELSE 46340]

IsSquare(n) == n >= 0 /\ Sqrt(n) * Sqrt(n) = n

(* ------------------------------- vec3.rs ------------------------------- *)

\* a Vec3 of integers is <<x, y, z>>; a Vec3 of fractions is
\* [num |-> <<x, y, z>>, den |-> d], the vector (x/d, y/d, z/d)
VAdd(u, v) == <<u[1] + v[1], u[2] + v[2], u[3] + v[3]>>

VNeg(u) == <<-u[1], -u[2], -u[3]>>

VSub(u, v) == VAdd(u, VNeg(v))

VScale(t, u) == <<t * u[1], t * u[2], t * u[3]>>

Dot(u, v) == u[1] * v[1] + u[2] * v[2] + u[3] * v[3]

LengthSquared(u) == Dot(u, u)

\* the same vector of fractions, in lowest terms
VReduce(v) ==
  LET g == GCD(GCD(GCD(Abs(v.num[1]), Abs(v.num[2])), Abs(v.num[3])), v.den)
  IN  IF g = 0 THEN v
      ELSE [num |-> <<v.num[1] \div g, v.num[2] \div g, v.num[3] \div g>>,
            den |-> v.den \div g]

\* Vec3 / f64 is (1.0 / t) * a: with t = 0 the factor is infinite, and the
\* product with a zero component NaN; den = 0 stands for the non-finite result
VDivScalar(v, t) ==
  IF t = 0 THEN [num |-> <<0, 0, 0>>, den |-> 0]
  ELSE IF t < 0 THEN VReduce([num |-> VNeg(v.num), den |-> v.den * (-t)])
  ELSE VReduce([num |-> v.num, den |-> v.den * t])

\* p - center, for a point of fractions and a center of integers
VSubInt(p, c) == [num |-> VSub(p.num, VScale(p.den, c)), den |-> p.den]

(* ----------------------------- ray.rs, material.rs --------------------- *)

None == [some |-> FALSE]

\* Ray::at
RayAt(ray, t) ==
  VReduce([num |-> VAdd(VScale(t.den, ray.orig.num), VScale(t.num * ray.orig.den, ray.dir)),
           den |-> ray.orig.den * t.den])

\* HitRecord::new with the test of the face the wrong way round
HitRecordNewInverted(p, outward_normal, t, ray, mat) ==
  IF Dot(ray.dir, outward_normal.num) < 0
  THEN [some |-> TRUE, p |-> p, normal |-> [outward_normal EXCEPT !.num = VNeg(@)],
        t |-> t, face |-> "Back", mat |-> mat]
  ELSE [some |-> TRUE, p |-> p, normal |-> outward_normal,
        t |-> t, face |-> "Front", mat |-> mat]

\* HitRecord::new
HitRecordNew(p, outward_normal, t, ray, mat) ==
  IF Dot(ray.dir, outward_normal.num) > 0
  THEN [some |-> TRUE, p |-> p, normal |-> [outward_normal EXCEPT !.num = VNeg(@)],
        t |-> t, face |-> "Back", mat |-> mat]
  ELSE [some |-> TRUE, p |-> p, normal |-> outward_normal,
        t |-> t, face |-> "Front", mat |-> mat]

\* the discriminant of Sphere::hit, times ray.orig.den^2 (a ray that starts
\* at a hit point has an origin of fractions; oc, half_b and c are kept
\* multiplied by the powers of its denominator that make them integers)
Discriminant(sphere, ray) ==
  LET den    == ray.orig.den
      oc     == VSub(ray.orig.num, VScale(den, sphere.center))
      a      == LengthSquared(ray.dir)
      half_b == Dot(oc, ray.dir)
      c      == LengthSquared(oc) - sphere.radius * sphere.radius * den * den
  IN  half_b * half_b - a * c

\* (-half_b - sqrtd) / a and (-half_b + sqrtd) / a
SphereRoots(sphere, ray) ==
  LET den    == ray.orig.den
      oc     == VSub(ray.orig.num, VScale(den, sphere.center))
      a      == LengthSquared(ray.dir)
      half_b == Dot(oc, ray.dir)
      sqrtd  == Sqrt(Discriminant(sphere, ray))
  IN  <<Frac(-half_b - sqrtd, a * den), Frac(-half_b + sqrtd, a * den)>>

OutOfRange(root, tmin, tmax) == Lt(root, tmin) \/ Lt(tmax, root)

\* the hit record of an accepted root, were the outward normal divided by the
\* absolute value of the radius
SphereAcceptAbsRadius(sphere, ray, root) ==
  LET p == RayAt(ray, root)
      outward_normal == VDivScalar(VSubInt(p, sphere.center), Abs(sphere.radius))
  IN  HitRecordNew(p, outward_normal, root, ray, sphere.material)

\* the hit record of an accepted root
SphereAccept(sphere, ray, root) ==
  LET p == RayAt(ray, root)
      outward_normal == VDivScalar(VSubInt(p, sphere.center), sphere.radius)
  IN  HitRecordNew(p, outward_normal, root, ray, sphere.material)

\* impl Hittable for Sphere
SphereHit(sphere, ray, tmin, tmax) ==
  IF Discriminant(sphere, ray) < 0 THEN None
  ELSE LET roots == SphereRoots(sphere, ray)
       IN  IF OutOfRange(roots[1], tmin, tmax)
           THEN IF OutOfRange(roots[2], tmin, tmax) THEN None
                ELSE SphereAccept(sphere, ray, roots[2])
           ELSE SphereAccept(sphere, ray, roots[1])

\* the loop of impl Hittable for Vec<T>, were closest_so_far never updated
RECURSIVE VecHitFromNoShrink(_, _, _, _, _, _)
VecHitFromNoShrink(objs, k, ray, tmin, closest_so_far, hit) ==
  IF k > Len(objs) THEN hit
  ELSE LET obj_hit == SphereHit(objs[k], ray, tmin, closest_so_far)
       IN  IF obj_hit.some
           THEN VecHitFromNoShrink(objs, k + 1, ray, tmin, closest_so_far, obj_hit)
           ELSE VecHitFromNoShrink(objs, k + 1, ray, tmin, closest_so_far, hit)

\* the loop of impl Hittable for Vec<T>, from object k on
RECURSIVE VecHitFrom(_, _, _, _, _, _)
VecHitFrom(objs, k, ray, tmin, closest_so_far, hit) ==
  IF k > Len(objs) THEN hit
  ELSE LET obj_hit == SphereHit(objs[k], ray, tmin, closest_so_far)
       IN  IF obj_hit.some
           THEN VecHitFrom(objs, k + 1, ray, tmin, obj_hit.t, obj_hit)
           ELSE VecHitFrom(objs, k + 1, ray, tmin, closest_so_far, hit)

\* impl Hittable for Vec<T>
VecHit(objs, ray, tmin, tmax) == VecHitFrom(objs, 1, ray, tmin, tmax, None)

(* ------------------------- worker pool, consumer ---------------------- *)

NoSpec == [generation |-> 0, x0 |-> 0, y0 |-> 0, x1 |-> 0, y1 |-> 0]

IdleWorker == [pc |-> "try", spec |-> NoSpec, i |-> 0, j |-> 0]

\* the bands, were the remainder band_offset left out of the start of the
\* bands after the first: they overlap the band of worker 0
BandOverlapping(i, width, n) ==
  LET band_width  == width \div n
      band_offset == width % n
  IN  IF i = 0 THEN <<0, band_width + band_offset>>
      ELSE <<band_width * i, band_width * i + band_width>>

\* the bands, were the image cut in n bands of width / n columns and the
\* remainder left out: the last width % n columns are in no band
BandRemainderDropped(i, width, n) ==
  LET band_width == width \div n
  IN  <<band_width * i, band_width * i + band_width>>

\* the column band of worker i in the Starting state
Band(i, width, n) ==
  LET band_width  == width \div n
      band_offset == width % n
  IN  IF i = 0 THEN <<0, band_width + band_offset>>
      ELSE <<band_offset + band_width * i, band_offset + band_width * i + band_width>>

\* the WorkerSpec of worker i; self.commands.len() is the number of command channels
MakeSpec(i, gen) ==
  LET b == Band(i, image_width, Cardinality(DOMAIN command_chan))
  IN  [generation |-> gen, x0 |-> b[1], y0 |-> 0, x1 |-> b[2], y1 |-> image_height]

\* the worker enters the double loop over spec.range, or comes back to the
\* top of the loop when the range is empty
BeginSpec(spec) ==
  IF spec.x0 < spec.x1 /\ spec.y0 < spec.y1
  THEN [pc |-> "render", spec |-> spec, i |-> spec.x0, j |-> spec.y0]
  ELSE [pc |-> "try", spec |-> spec, i |-> spec.x0, j |-> spec.y0]

\* the loop counters, were the inner loop not started again at y0 for the
\* next column
AdvanceNoRowRestart(wk) ==
  IF wk.j + 1 < wk.spec.y1 THEN [wk EXCEPT !.j = wk.j + 1]
  ELSE IF wk.i + 1 < wk.spec.x1 THEN [wk EXCEPT !.i = wk.i + 1]
  ELSE [wk EXCEPT !.pc = "try"]

\* the loop counters after the pixel (i, j) has been sent
Advance(wk) ==
  IF wk.j + 1 < wk.spec.y1 THEN [wk EXCEPT !.j = wk.j + 1]
  ELSE IF wk.i + 1 < wk.spec.x1 THEN [wk EXCEPT !.i = wk.i + 1, !.j = wk.spec.y0]
  ELSE [wk EXCEPT !.pc = "try"]

InitConc ==
  /\ app_state = "Starting"
  /\ current_gen = 0
  /\ pixels = <<>>
  /\ image_width \in 0 .. MaxWidth
  /\ image_height \in 0 .. MaxHeight
  /\ command_chan = [w \in Workers |-> <<>>]
  /\ cmd_open = TRUE
  /\ result_chan = <<>>
  /\ result_open = TRUE
  /\ worker = [w \in Workers |-> IdleWorker]
  /\ respecs = 0
  /\ sent = [w \in Workers |-> <<>>]

\* the variables of a specification that is not running
IdleConc ==
  /\ app_state = "Idle"
  /\ current_gen = 0
  /\ pixels = <<>>
  /\ image_width = 0
  /\ image_height = 0
  /\ command_chan = <<>>
  /\ cmd_open = FALSE
  /\ result_chan = <<>>
  /\ result_open = FALSE
  /\ worker = <<>>
  /\ respecs = 0
  /\ sent = <<>>

IdleHit ==
  /\ h_pc = "idle"
  /\ h_ray = <<>>
  /\ h_tmin = <<>>
  /\ h_tmax = <<>>
  /\ h_world = <<>>
  /\ h_hit = <<>>

IdleCam ==
  /\ cam_pc = "idle"
  /\ cam_aspect = <<>>
  /\ cam_width = 0
  /\ cam_height = 0

IdleRC ==
  /\ rc_pc = "idle"
  /\ rc_world = <<>>
  /\ rc_max_depth = 0
  /\ rc_ray = <<>>
  /\ rc_depth = 0
  /\ rc_atten = <<>>
  /\ rc_leaf = <<>>
  /\ rc_result = <<>>

vars_pure == <<vars_hit, vars_cam, vars_rc>>

\* command_chan.try_iter().last(): every queued spec is taken, the last one kept
WorkerTry(w) ==
  /\ worker[w].pc = "try"
  /\ IF command_chan[w] # <<>>
     THEN /\ worker' = [worker EXCEPT ![w] = BeginSpec(command_chan[w][Len(command_chan[w])])]
          /\ command_chan' = [command_chan EXCEPT ![w] = <<>>]
     ELSE /\ worker' = [worker EXCEPT ![w].pc = "recv"]
          /\ UNCHANGED command_chan
  /\ UNCHANGED <<app_state, current_gen, pixels, image_width, image_height,
                 cmd_open, result_chan, result_open, respecs>>
  /\ UNCHANGED sent
  /\ UNCHANGED vars_pure

\* .or_else(|| command_chan.recv().ok()): blocks while the channel is empty and
\* connected; None (the worker returns) once it is empty and disconnected
WorkerRecv(w) ==
  /\ worker[w].pc = "recv"
  /\ IF command_chan[w] # <<>>
     THEN /\ worker' = [worker EXCEPT ![w] = BeginSpec(Head(command_chan[w]))]
          /\ command_chan' = [command_chan EXCEPT ![w] = Tail(command_chan[w])]
     ELSE /\ ~cmd_open
          /\ worker' = [worker EXCEPT ![w].pc = "stopped"]
          /\ UNCHANGED command_chan
  /\ UNCHANGED <<app_state, current_gen, pixels, image_width, image_height,
                 cmd_open, result_chan, result_open, respecs>>
  /\ UNCHANGED sent
  /\ UNCHANGED vars_pure

\* the outcome of result_channel.send(result).unwrap() for worker state wk
SendResult(wk, open) ==
  IF open THEN Advance(wk) ELSE [wk EXCEPT !.pc = "panicked"]

\* one iteration of the inner loop: the pixel (i, j) is rendered and sent
WorkerPixel(w) ==
  /\ worker[w].pc = "render"
  /\ \E color \in Colors :
       LET wk == worker[w]
           result == [gen |-> wk.spec.generation, x |-> wk.i, y |-> wk.j, color |-> color]
       IN  /\ result_chan' = IF result_open THEN Append(result_chan, result) ELSE result_chan
           /\ sent' = IF result_open THEN [sent EXCEPT ![w] = Append(@, result)] ELSE sent
           /\ worker' = [worker EXCEPT ![w] = SendResult(wk, result_open)]
  /\ UNCHANGED <<app_state, current_gen, pixels, image_width, image_height,
                 command_chan, cmd_open, result_open, respecs>>
  /\ UNCHANGED vars_pure

\* MyApp::update in AppState::Starting
UpdateStarting ==
  /\ app_state = "Starting"
  /\ pixels' = [k \in 0 .. (image_width * image_height - 1) |-> LIGHT_RED]
  /\ command_chan' = [w \in DOMAIN command_chan |->
                        Append(command_chan[w], MakeSpec(w, current_gen))]
  /\ app_state' = "Computing"
  /\ UNCHANGED <<current_gen, image_width, image_height, cmd_open, result_chan,
                 result_open, worker, respecs>>
  /\ UNCHANGED sent
  /\ UNCHANGED vars_pure

\* the loop of update, were the generation of a result not looked at
RECURSIVE DrainAnyGeneration(_, _)
DrainAnyGeneration(px, rs) ==
  IF rs = <<>> THEN px
  ELSE LET r == Head(rs)
       IN  DrainAnyGeneration([px EXCEPT ![image_width * r.y + r.x] = r.color], Tail(rs))

\* the pixel buffer after the results rs have been received in order
RECURSIVE Drain(_, _)
Drain(px, rs) ==
  IF rs = <<>> THEN px
  ELSE LET r == Head(rs)
       IN  IF r.gen # current_gen THEN Drain(px, Tail(rs))
           ELSE Drain([px EXCEPT ![image_width * r.y + r.x] = r.color], Tail(rs))

\* MyApp::update in AppState::Computing
UpdateComputing ==
  /\ app_state = "Computing"
  /\ pixels' = Drain(pixels, result_chan)
  /\ result_chan' = <<>>
  /\ UNCHANGED <<app_state, current_gen, image_width, image_height, command_chan,
                 cmd_open, result_open, worker, respecs>>
  /\ UNCHANGED sent
  /\ UNCHANGED vars_pure

\* a further WorkerSpec is sent on the command channel of worker w
SendSpec(w) ==
  /\ app_state = "Computing"
  /\ cmd_open
  /\ respecs < MaxRespec
  /\ \E gen \in 0 .. MaxGen :
       command_chan' = [command_chan EXCEPT ![w] = Append(@, MakeSpec(w, gen))]
  /\ respecs' = respecs + 1
  /\ UNCHANGED <<app_state, current_gen, pixels, image_width, image_height,
                 cmd_open, result_chan, result_open, worker>>
  /\ UNCHANGED sent
  /\ UNCHANGED vars_pure

\* eframe::run_native returns and the app is dropped: the result Receiver and
\* the command Senders go with it
AppDrop ==
  /\ app_state # "Dropped"
  /\ app_state' = "Dropped"
  /\ result_open' = FALSE
  /\ cmd_open' = FALSE
  /\ result_chan' = <<>>
  /\ UNCHANGED <<current_gen, pixels, image_width, image_height, command_chan,
                 worker, respecs>>
  /\ UNCHANGED sent
  /\ UNCHANGED vars_pure

Next ==
  \/ \E w \in Workers : WorkerTry(w)
  \/ \E w \in Workers : WorkerRecv(w)
  \/ \E w \in Workers : WorkerPixel(w)
  \/ UpdateStarting
  \/ UpdateComputing
  \/ \E w \in Workers : SendSpec(w)
  \/ AppDrop

Init == InitConc /\ IdleHit /\ IdleCam /\ IdleRC

Spec == Init /\ [][Next]_vars

(* ------------- SpecRun: the run main starts, as main sends ------------ *)

MaxRunWorkers == 3   \* worker counts 1..MaxRunWorkers
MaxRunWidth   == 4   \* image widths 0..MaxRunWidth
MaxRunHeight  == 2   \* image heights 0..MaxRunHeight
MaxRunPixels  == 4   \* images of at most MaxRunPixels pixels

\* the sizes [camera.image_width, camera.image_height] of the images of a run
RunSizes ==
  {s \in (0 .. MaxRunWidth) \X (0 .. MaxRunHeight) : s[1] * s[2] <= MaxRunPixels}

\* main has built the app and spawned n_worker workers
InitRun ==
  /\ app_state = "Starting"
  /\ current_gen = 0
  /\ pixels = <<>>
  /\ \E s \in RunSizes : image_width = s[1] /\ image_height = s[2]
  /\ \E n_worker \in 1 .. MaxRunWorkers :
       /\ command_chan = [w \in 0 .. (n_worker - 1) |-> <<>>]
       /\ worker = [w \in 0 .. (n_worker - 1) |-> IdleWorker]
       /\ sent = [w \in 0 .. (n_worker - 1) |-> <<>>]
  /\ cmd_open = TRUE
  /\ result_chan = <<>>
  /\ result_open = TRUE
  /\ respecs = 0
  /\ IdleHit /\ IdleCam /\ IdleRC

\* the only WorkerSpecs of a run are those of the Starting state: main.rs has
\* no other send on a command channel
NextRun ==
  \/ \E w \in DOMAIN worker : WorkerTry(w)
  \/ \E w \in DOMAIN worker : WorkerRecv(w)
  \/ \E w \in DOMAIN worker : WorkerPixel(w)
  \/ UpdateStarting
  \/ UpdateComputing
  \/ AppDrop

SpecRun == InitRun /\ [][NextRun]_vars

(* ------- SpecRunFair: the run while the window stays open, fair ------- *)

\* one step of the thread of worker w
WorkerStep(w) ==
  /\ w \in DOMAIN worker
  /\ (WorkerTry(w) \/ WorkerRecv(w) \/ WorkerPixel(w))

\* the workers and the calls of update, as long as run_native has not returned
NextOpen ==
  \/ \E w \in DOMAIN worker : WorkerStep(w)
  \/ UpdateStarting
  \/ UpdateComputing

\* every worker thread keeps being scheduled, and eframe keeps calling update:
\* the thread spawned in the Starting state requests a repaint every 500 ms
FairOpen ==
  /\ \A w \in 0 .. (MaxRunWorkers - 1) : WF_vars(WorkerStep(w))
  /\ WF_vars(UpdateStarting)
  /\ WF_vars(UpdateComputing)

SpecRunFair == InitRun /\ [][NextOpen]_vars /\ FairOpen

(* ------- SpecConsume: update in the Computing state, on any queue ------ *)

MaxQueued == 2       \* results queued on the result channel when update is called

\* the results (generation, (x, y), color) a queue can hold for this image
ResultsOf(width, height) ==
  {[gen |-> g, x |-> x, y |-> y, color |-> c] :
     g \in 0 .. MaxGen, x \in 0 .. (width - 1), y \in 0 .. (height - 1), c \in Colors}

\* update is about to be called in the Computing state: a single worker has
\* sent the results that are queued, of any generation; the buffer holds the
\* placeholder or a colour
InitConsume ==
  /\ app_state = "Computing"
  /\ current_gen = 0
  /\ \E s \in RunSizes : image_width = s[1] /\ image_height = s[2]
  /\ \E c \in Colors \cup {LIGHT_RED} :
       pixels = [k \in 0 .. (image_width * image_height - 1) |-> c]
  /\ result_chan \in UNION {[1 .. n -> ResultsOf(image_width, image_height)] : n \in 0 .. MaxQueued}
  /\ sent = [w \in {0} |-> result_chan]
  /\ command_chan = [w \in {0} |-> <<>>]
  /\ worker = [w \in {0} |-> [IdleWorker EXCEPT !.pc = "recv"]]
  /\ cmd_open = TRUE
  /\ result_open = TRUE
  /\ respecs = 0
  /\ IdleHit /\ IdleCam /\ IdleRC

NextConsume == UpdateComputing

SpecConsume == InitConsume /\ [][NextConsume]_vars

(* --------------------------- SpecHit: hit ------------------------------ *)

Lambertian == [kind |-> "Lambertian", albedo |-> <<1, 2, 5>>]   \* main.rs 126-128, tenths

Metal == [kind |-> "Metal", albedo |-> <<8, 6, 2>>]             \* main.rs 130-133, tenths

Dielectric == [kind |-> "Dielectric", albedo |-> <<10, 10, 10>>] \* material.rs 87, tenths

\* lengths are in tenths: the sphere of main.rs 159-163 has its center at
\* (0, 0, -10) and radius 5; a negative radius is a hollow sphere (main.rs
\* 169-175)
HitCenters == {<<0, 0, -10>>, <<0, 0, -20>>, <<6, 0, -8>>}

HitRadii == {5, -5, -4, 0}

MaterialOf(radius) ==
  IF radius > 0 THEN Lambertian ELSE IF radius < 0 THEN Dielectric ELSE Metal

HitSpheres ==
  {[center |-> c, radius |-> r, material |-> MaterialOf(r)] : c \in HitCenters, r \in HitRadii}

HitRays ==
  {[orig |-> [num |-> o, den |-> 1], dir |-> d] :
     o \in {<<0, 0, 0>>, <<3, 0, 0>>, <<0, 0, -10>>},
     d \in {<<0, 0, -1>>, <<0, 0, 1>>, <<0, 0, -2>>, <<3, 0, -4>>}}

\* 1/1000 of a tenth is the 0.0001 of ray_color
HitTMins == {Frac(0, 1), Frac(1, 1000), Frac(6, 1)}

HitTMaxs == {INFINITY, Frac(12, 1), Frac(5, 1)}

\* every square root hit takes of this ray and these spheres is exact
ExactFor(world, ray) ==
  \A k \in 1 .. Len(world) :
    Discriminant(world[k], ray) < 0 \/ IsSquare(Discriminant(world[k], ray))

InitHit ==
  /\ h_pc = "in"
  /\ h_ray \in HitRays
  /\ h_tmin \in HitTMins
  /\ h_tmax \in HitTMaxs
  /\ h_world \in UNION {[1 .. n -> HitSpheres] : n \in 0 .. MaxSpheres}
  /\ ExactFor(h_world, h_ray)
  /\ h_hit = None
  /\ IdleConc /\ IdleCam /\ IdleRC

\* self.spheres.hit(ray, tmin, tmax)
DoHit ==
  /\ h_pc = "in"
  /\ h_hit' = VecHit(h_world, h_ray, h_tmin, h_tmax)
  /\ h_pc' = "out"
  /\ UNCHANGED <<h_ray, h_tmin, h_tmax, h_world>>
  /\ UNCHANGED <<vars_conc, vars_cam, vars_rc>>

NextHit == DoHit

SpecHit == InitHit /\ [][NextHit]_vars

(* ------------------------- SpecCamera: Camera::new --------------------- *)

\* (x as f64).ceil() for the fraction n/d, n >= 0, d > 0
Ceil(n, d) == (n + d - 1) \div d

\* image_height, were the quotient truncated by the cast alone
CameraImageHeightTruncated(aspect_ratio, width) ==
  (width * aspect_ratio.den) \div aspect_ratio.num

\* image_height: (image_width as f64 / aspect_ratio).ceil() as usize
CameraImageHeight(aspect_ratio, width) ==
  Ceil(width * aspect_ratio.den, aspect_ratio.num)

InitCam ==
  /\ cam_pc = "in"
  /\ cam_aspect \in {Frac(n, d) : n \in 1 .. MaxAspect, d \in 1 .. MaxAspect}
  /\ cam_width \in 0 .. MaxCamWidth
  /\ cam_height = 0
  /\ IdleConc /\ IdleHit /\ IdleRC

\* Camera::new
CameraNew ==
  /\ cam_pc = "in"
  /\ cam_height' = CameraImageHeight(cam_aspect, cam_width)
  /\ cam_pc' = "out"
  /\ UNCHANGED <<cam_aspect, cam_width>>
  /\ UNCHANGED <<vars_conc, vars_hit, vars_rc>>

NextCam == CameraNew

SpecCamera == InitCam /\ [][NextCam]_vars

(* ----------------------- SpecRayColor: ray_color ----------------------- *)

MAX_DEPTH == 3

\* 0.0001, in tenths
T_MIN == Frac(1, 1000)

\* a Color is a Vec3 of fractions
Black == [num |-> <<0, 0, 0>>, den |-> 1]

White == [num |-> <<1, 1, 1>>, den |-> 1]

\* Color * Color
ColorMul(c, d) ==
  VReduce([num |-> <<c.num[1] * d.num[1], c.num[2] * d.num[2], c.num[3] * d.num[3]>>,
           den |-> c.den * d.den])

\* (1.0 - t) * bottom + t * (0.5, 0.7, 1.0) with t = 0.5 * (unit_direction.y + 1.0),
\* for a direction of integer length and a bottom colour of integers
Gradient(dir, bottom) ==
  LET len == Sqrt(LengthSquared(dir))
  IN  VReduce([num |-> VAdd(VScale((len - dir[2]) * 10, bottom),
                            VScale(len + dir[2], <<5, 7, 10>>)),
               den |-> 20 * len])

\* the None arm of ray_color
Background(ray) == Gradient(ray.dir, <<1, 1, 0>>)

\* the test of the depth, off by one
DepthExhaustedLate(depth, max_depth) == depth > max_depth

\* depth >= MAX_DEPTH
DepthExhausted(depth, max_depth) == depth >= max_depth

\* the directions a scattered ray is given in the model
ScatterDirs ==
  {<<1, 0, 0>>, <<-1, 0, 0>>, <<0, 1, 0>>, <<0, -1, 0>>, <<0, 0, 1>>, <<0, 0, -1>>}

\* the results Material::scatter can return for a hit, one for each outcome d
\* of the random draws: a Lambertian scatters into the half space of the
\* normal, a Metal scatters when the direction leaves the surface and absorbs
\* otherwise, a Dielectric reflects or refracts
Scatter(mat, hit, world) ==
  {IF mat.kind = "Metal" /\ Dot(d, hit.normal.num) <= 0 THEN None
   ELSE [some |-> TRUE,
         scattered |-> [orig |-> hit.p, dir |-> d],
         attenuation |-> [num |-> mat.albedo, den |-> 10]] :
   d \in {e \in ScatterDirs :
            /\ ExactFor(world, [orig |-> hit.p, dir |-> e])
            /\ mat.kind = "Lambertian" => Dot(e, hit.normal.num) > 0}}

RCSpheres ==
  <<[center |-> <<0, 0, -10>>, radius |-> 5, material |-> Lambertian],
    [center |-> <<10, 0, -10>>, radius |-> 5, material |-> Metal],
    [center |-> <<-10, 0, -10>>, radius |-> 5, material |-> Dielectric],
    [center |-> <<-10, 0, -10>>, radius |-> -4, material |-> Dielectric]>>

RCWorlds ==
  {<<>>, <<RCSpheres[1]>>, <<RCSpheres[2]>>, <<RCSpheres[1], RCSpheres[2]>>,
   <<RCSpheres[3], RCSpheres[4]>>, RCSpheres}

RCRays ==
  {[orig |-> [num |-> o, den |-> 1], dir |-> d] :
     o \in {<<0, 0, 0>>, <<10, 0, 0>>, <<-10, 0, 0>>},
     d \in {<<0, 0, -1>>, <<0, -1, 0>>, <<0, 2, 0>>, <<1, 0, 0>>, <<0, 3, -4>>, <<0, -3, -4>>}}

InitRC ==
  /\ rc_pc = "call"
  /\ rc_world \in RCWorlds
  /\ rc_max_depth \in 0 .. MAX_DEPTH
  /\ rc_ray \in RCRays
  /\ ExactFor(rc_world, rc_ray)
  /\ rc_depth = 0
  /\ rc_atten = White
  /\ rc_leaf = Black
  /\ rc_result = Black
  /\ IdleConc /\ IdleHit /\ IdleCam

\* the call returns the Color leaf, and the call at depth 0 the product of
\* leaf and of the attenuations on the way
RCReturn(leaf) ==
  /\ rc_leaf' = leaf
  /\ rc_result' = ColorMul(rc_atten, leaf)
  /\ rc_pc' = "done"
  /\ UNCHANGED <<rc_ray, rc_depth, rc_atten>>

\* one call of ray_color(world, ray, depth)
RayColor ==
  /\ rc_pc = "call"
  /\ IF DepthExhausted(rc_depth, rc_max_depth) THEN RCReturn(Black)
     ELSE LET hit == VecHit(rc_world, rc_ray, T_MIN, INFINITY)
          IN  IF hit.some
              THEN \E s \in Scatter(hit.mat, hit, rc_world) :
                     IF s.some
                     THEN /\ rc_ray' = s.scattered
                          /\ rc_depth' = rc_depth + 1
                          /\ rc_atten' = ColorMul(rc_atten, s.attenuation)
                          /\ UNCHANGED <<rc_pc, rc_leaf, rc_result>>
                     ELSE RCReturn(Black)
              ELSE RCReturn(Background(rc_ray))
  /\ UNCHANGED <<rc_world, rc_max_depth>>
  /\ UNCHANGED <<vars_conc, vars_hit, vars_cam>>

NextRC == RayColor

SpecRayColor == InitRC /\ [][NextRC]_vars

(* ------------------------------- claims -------------------------------- *)

\* C1: when the consumer has closed the result channel, a worker that is
\* rendering treats the failed send as a cancellation and ends silently: no
\* worker ever ends in a panic.
C1_NoWorkerPanics ==
  \A w \in Workers : worker[w].pc # "panicked"

\* C2: once the run of a worker is stale (the result channel is closed, or a
\* newer WorkerSpec is queued on its command channel), the send the worker
\* makes next is the last of that run: after it the worker is no longer
\* rendering the old range.
C2_StaleRunStopsAfterNextSend ==
  [][\A w \in Workers :
       (/\ worker[w].pc = "render"
        /\ (command_chan[w] # <<>> \/ ~result_open)
        /\ worker'[w] # worker[w])
       => worker'[w].pc # "render"]_vars

\* C3: the result channel is bounded by a capacity that does not grow with
\* the image: the results sent and not yet consumed never amount to a whole
\* image (one result for every pixel) while the consumer is not reading.
C3_ResultQueueBounded ==
  image_width * image_height > 1 => Len(result_chan) < image_width * image_height

\* the roots of every sphere of world that lie in [tmin, tmax]
InRangeRoots(world, ray, tmin, tmax) ==
  {r \in UNION {{SphereRoots(world[k], ray)[1], SphereRoots(world[k], ray)[2]} :
                  k \in {n \in 1 .. Len(world) : Discriminant(world[n], ray) >= 0}} :
     ~OutOfRange(r, tmin, tmax)}

\* the hits of the spheres of world, each taken alone over [tmin, tmax]
AloneHits(world, ray, tmin, tmax) ==
  {h \in {SphereHit(world[k], ray, tmin, tmax) : k \in 1 .. Len(world)} : h.some}

\* the point p lies on the surface of sphere
OnSphere(p, sphere) ==
  LengthSquared(VSubInt(p, sphere.center).num) = sphere.radius * sphere.radius * p.den * p.den

\* C5: hit on a collection of spheres returns none exactly when no sphere has a
\* root in [tmin, tmax]; otherwise the t it returns is the smallest root in
\* range of all the spheres, which is also the smallest t among the hits of
\* the spheres taken one by one over the whole range, and the point returned
\* lies at that t on the ray and on one of the spheres.
C5_ClosestHit ==
  h_pc = "out" =>
    LET roots == InRangeRoots(h_world, h_ray, h_tmin, h_tmax)
        alone == AloneHits(h_world, h_ray, h_tmin, h_tmax)
    IN  /\ h_hit.some <=> roots # {}
        /\ h_hit.some <=> alone # {}
        /\ h_hit.some =>
             /\ \E r \in roots : FracEq(r, h_hit.t)
             /\ \A r \in roots : ~Lt(r, h_hit.t)
             /\ \E h \in alone : FracEq(h.t, h_hit.t)
             /\ \A h \in alone : ~Lt(h.t, h_hit.t)
             /\ h_hit.p = RayAt(h_ray, h_hit.t)
             /\ \E k \in 1 .. Len(h_world) : OnSphere(h_hit.p, h_world[k])

\* C5 witness: two spheres are both hit and the second one, scanned with the
\* range shrunk to the first one's hit, is the closer and is returned.
C5_Witness ==
  /\ h_pc = "out"
  /\ Len(h_world) = 2
  /\ SphereHit(h_world[1], h_ray, h_tmin, h_tmax).some
  /\ SphereHit(h_world[2], h_ray, h_tmin, h_tmax).some
  /\ Lt(SphereHit(h_world[2], h_ray, h_tmin, h_tmax).t,
        SphereHit(h_world[1], h_ray, h_tmin, h_tmax).t)
  /\ h_hit.some
  /\ FracEq(h_hit.t, SphereHit(h_world[2], h_ray, h_tmin, h_tmax).t)

\* the record h is a hit of sphere whose stored normal opposes the ray and
\* whose face tells on which side of the outward normal the ray comes from
OpposesRay(h, sphere, ray) ==
  LET pc == VSubInt(h.p, sphere.center)             \* p - center
      along == Dot(ray.dir, pc.num) * sphere.radius \* sign of dir . outward_normal
      sgn == IF h.face = "Back" THEN -1 ELSE 1
  IN  /\ h.normal.den > 0
      /\ Dot(ray.dir, h.normal.num) <= 0
      /\ h.face = "Back" <=> along > 0
      /\ h.face = "Front" <=> along <= 0
      /\ \A i \in 1 .. 3 :
           h.normal.num[i] * pc.den * sphere.radius = sgn * pc.num[i] * h.normal.den

\* C6: for every accepted hit of a sphere of non-zero radius, positive or
\* negative, the stored normal opposes the ray (direction . normal <= 0); the
\* face is Back exactly when direction . outward_normal > 0, the stored normal
\* then being -outward_normal, and Front otherwise, with the outward normal
\* stored.
C6_NormalOpposesRay ==
  h_pc = "out" =>
    /\ \A k \in 1 .. Len(h_world) :
         LET h == SphereHit(h_world[k], h_ray, h_tmin, h_tmax)
         IN  (h_world[k].radius # 0 /\ h.some) => OpposesRay(h, h_world[k], h_ray)
    /\ \A k \in 1 .. Len(h_world) :
         (/\ h_hit.some
          /\ h_world[k].radius # 0
          /\ h_hit.mat = h_world[k].material
          /\ OnSphere(h_hit.p, h_world[k]))
         => Dot(h_ray.dir, h_hit.normal.num) <= 0

\* C6 witness: a hollow sphere (negative radius) is hit from the side its
\* outward normal points away from, and the hit is the one returned.
C6_Witness ==
  /\ h_pc = "out"
  /\ h_hit.some
  /\ h_hit.face = "Back"
  /\ h_hit.normal.den > 0
  /\ Dot(h_ray.dir, h_hit.normal.num) < 0
  /\ \E k \in 1 .. Len(h_world) :
       /\ h_world[k].radius < 0
       /\ h_hit = SphereHit(h_world[k], h_ray, h_tmin, h_tmax)

\* the ray and the spheres of the concrete cases, in tenths
Ray0 == [orig |-> [num |-> <<0, 0, 0>>, den |-> 1], dir |-> <<0, 0, -1>>]

Solid0 == [center |-> <<0, 0, -10>>, radius |-> 5, material |-> MaterialOf(5)]

Hollow0 == [center |-> <<0, 0, -10>>, radius |-> -5, material |-> MaterialOf(-5)]

\* Ray0 has been intersected with the hollow sphere alone, over a range that
\* holds t = 0.5
HollowCase ==
  /\ h_pc = "out"
  /\ h_ray = Ray0
  /\ h_world = <<Hollow0>>
  /\ ~OutOfRange(Frac(5, 1), h_tmin, h_tmax)

\* C7 as claimed: for the ray from (0,0,0) along (0,0,-1) and the hollow sphere
\* of center (0,0,-1) and radius -0.5, hit returns t = 0.5 and the point
\* (0,0,-0.5) as for radius 0.5, the normal (0,0,-1) of the record is the
\* opposite of the (0,0,1) of the radius 0.5 case, and the face is not Front.
C7_HollowNormalFlipped ==
  HollowCase =>
    LET solid == SphereHit(Solid0, h_ray, h_tmin, h_tmax)
    IN  /\ h_hit.some /\ solid.some
        /\ FracEq(h_hit.t, Frac(5, 1)) /\ FracEq(solid.t, h_hit.t)
        /\ h_hit.p = [num |-> <<0, 0, -5>>, den |-> 1] /\ solid.p = h_hit.p
        /\ solid.normal = [num |-> <<0, 0, 1>>, den |-> 1]
        /\ h_hit.normal = [num |-> <<0, 0, -1>>, den |-> 1]
        /\ h_hit.face # "Front"

\* C7 as amended: same t = 0.5 and point (0,0,-0.5) as for radius 0.5, the face
\* is Back where the radius 0.5 case has Front, and the normal of the record is
\* (0,0,1) in both cases: the outward normal (0,0,-1) of the hollow sphere
\* points along the ray and HitRecord::new stores its opposite.
C7_HollowFaceBack ==
  HollowCase =>
    LET solid == SphereHit(Solid0, h_ray, h_tmin, h_tmax)
    IN  /\ h_hit.some /\ solid.some
        /\ FracEq(h_hit.t, Frac(5, 1)) /\ FracEq(solid.t, h_hit.t)
        /\ h_hit.p = [num |-> <<0, 0, -5>>, den |-> 1] /\ solid.p = h_hit.p
        /\ solid.normal = [num |-> <<0, 0, 1>>, den |-> 1]
        /\ solid.face = "Front"
        /\ h_hit.normal = [num |-> <<0, 0, 1>>, den |-> 1]
        /\ h_hit.face = "Back"

\* C7 witness: the hollow case with the range (0.0001, infinity) of ray_color.
C7_Witness ==
  /\ HollowCase
  /\ h_tmin = Frac(1, 1000)
  /\ h_tmax = INFINITY
  /\ h_hit.some

\* C8: a sphere of radius 0 is never hit, whatever the ray and the range, and
\* no hit record carries a normal that was divided by a zero radius.
C8_ZeroRadiusUnhittable ==
  h_pc = "out" =>
    /\ \A k \in 1 .. Len(h_world) :
         h_world[k].radius = 0 => ~SphereHit(h_world[k], h_ray, h_tmin, h_tmax).some
    /\ h_hit.some => h_hit.normal.den # 0

\* f64::round for the fraction n/d, n >= 0, d > 0: halves go away from zero
Round(n, d) == (2 * n + d) \div (2 * d)

\* C10 as claimed: image_height is image_width / aspect_ratio rounded to the
\* nearest integer.
C10_HeightIsRounded ==
  cam_pc = "out" => cam_height = Round(cam_width * cam_aspect.den, cam_aspect.num)

\* C10 as amended: image_height is the ceiling of image_width / aspect_ratio,
\* the least integer h with image_width / aspect_ratio <= h.
C10_HeightIsCeiling ==
  cam_pc = "out" =>
    /\ cam_width * cam_aspect.den <= cam_height * cam_aspect.num
    /\ (cam_height - 1) * cam_aspect.num < cam_width * cam_aspect.den

\* C10 witness: a quotient whose ceiling is not its nearest integer, such as
\* 4 / 3.
C10_Witness ==
  /\ cam_pc = "out"
  /\ cam_height # Round(cam_width * cam_aspect.den, cam_aspect.num)

\* C4: ray_color returns black whenever depth >= max_depth; the depth of a call
\* never exceeds max_depth, and a call that has been entered always has a step
\* to take, which either returns or enters one call one level deeper: the call
\* at depth 0 ends after at most max_depth nested calls, whatever the scene
\* and the scatter outcomes; with max_depth = 0 its result is black.
C4_DepthBounded ==
  /\ [](/\ rc_depth <= rc_max_depth
        /\ (rc_pc = "done" /\ rc_depth >= rc_max_depth)
             => (rc_leaf = Black /\ rc_result = Black)
        /\ (rc_pc = "done" /\ rc_max_depth = 0) => rc_result = Black
        /\ (rc_pc = "call" /\ rc_depth < rc_max_depth)
             => LET hit == VecHit(rc_world, rc_ray, T_MIN, INFINITY)
                IN  hit.some => Scatter(hit.mat, hit, rc_world) # {})
  /\ [][rc_pc = "call" =>
          \/ rc_pc' = "done" /\ rc_depth' = rc_depth
          \/ rc_pc' = "call" /\ rc_depth' = rc_depth + 1]_vars

\* C4 witness: three scatters in a row have brought the recursion to
\* depth = max_depth = MAX_DEPTH, where it has ended with black.
C4_Witness ==
  /\ rc_pc = "done"
  /\ rc_max_depth = MAX_DEPTH
  /\ rc_depth = rc_max_depth
  /\ rc_result = Black

\* C9: when the ray misses every sphere, ray_color returns
\* (1-t)*white + t*skyblue with white = (1,1,1), skyblue = (0.5,0.7,1.0) and
\* t = 0.5*(y+1), y the y-component of the normalized direction; a missing ray
\* that points straight down yields white.
C9_BackgroundFromWhite ==
  (/\ rc_pc = "done"
   /\ rc_depth < rc_max_depth
   /\ InRangeRoots(rc_world, rc_ray, T_MIN, INFINITY) = {})
  => /\ rc_leaf = Gradient(rc_ray.dir, <<1, 1, 1>>)
     /\ (rc_ray.dir[1] = 0 /\ rc_ray.dir[3] = 0 /\ rc_ray.dir[2] < 0) => rc_leaf = White

\* the index in the pixel buffer of the pixel a result is for
IndexOf(r) == image_width * r.y + r.x

\* the positions, in the sends of worker w, of its results of the current
\* generation for the pixel of index k
SendsFor(w, k) ==
  {n \in 1 .. Len(sent[w]) : sent[w][n].gen = current_gen /\ IndexOf(sent[w][n]) = k}

\* the workers that have sent a result of the current generation for index k
SendersOf(k) == {w \in DOMAIN sent : SendsFor(w, k) # {}}

\* the colour of the last result worker w has sent for index k
LastSent(w, k) ==
  sent[w][CHOOSE n \in SendsFor(w, k) : \A m \in SendsFor(w, k) : m <= n].color

\* C11: the final image does not depend on the arrival order.  Once every
\* result sent has been consumed, the pixel buffer is a function of what each
\* worker sent, whatever the interleaving of the sends and of the drains was:
\* no pixel has results from two workers, a pixel some worker sent a result
\* for holds the colour that worker sent for it last, and every other pixel
\* holds the placeholder.
C11_ArrivalOrderIrrelevant ==
  (app_state = "Computing" /\ result_chan = <<>>) =>
    \A k \in DOMAIN pixels :
      /\ Cardinality(SendersOf(k)) <= 1
      /\ \A w \in SendersOf(k) : pixels[k] = LastSent(w, k)
      /\ SendersOf(k) = {} => pixels[k] = LIGHT_RED

\* C11 witness: two workers have sent results, all of them have been
\* consumed, and the image is complete with pixels of different colours.
C11_Witness ==
  /\ app_state = "Computing"
  /\ result_chan = <<>>
  /\ \E v, w \in DOMAIN sent : v # w /\ sent[v] # <<>> /\ sent[w] # <<>>
  /\ \A k \in DOMAIN pixels : pixels[k] # LIGHT_RED
  /\ \E k, l \in DOMAIN pixels : pixels[k] # pixels[l]

\* the spheres of world whose own hit over [tmin, tmax] is at the parameter t
HitsAt(world, ray, tmin, tmax, t) ==
  {k \in 1 .. Len(world) :
     /\ SphereHit(world[k], ray, tmin, tmax).some
     /\ FracEq(SphereHit(world[k], ray, tmin, tmax).t, t)}

\* C12: intersection with the collection is first-hit-wins: when several
\* spheres have their accepted hit at the same minimal t, the record and the
\* material returned are those of the one that comes first in the collection;
\* a later sphere replaces the closest hit so far only with a strictly
\* smaller t.
C12_FirstHitWins ==
  (h_pc = "out" /\ h_hit.some) =>
    LET tied  == HitsAt(h_world, h_ray, h_tmin, h_tmax, h_hit.t)
        first == CHOOSE k \in tied : \A m \in tied : k <= m
    IN  /\ tied # {}
        /\ h_hit = SphereHit(h_world[first], h_ray, h_tmin, h_tmax)
        /\ h_hit.mat = h_world[first].material

\* the pixels (x, y) of the range of a WorkerSpec
RangeOf(spec) ==
  (spec.x0 .. (spec.x1 - 1)) \X (spec.y0 .. (spec.y1 - 1))

\* the pixels of the image
ImagePixels == (0 .. (image_width - 1)) \X (0 .. (image_height - 1))

\* the WorkerSpecs specs, one for every worker, are the column bands C13
\* names and they cut the image in disjoint ranges that cover it
PartitionImage(specs) ==
  LET n == Cardinality(DOMAIN specs)
      q == image_width \div n
      r == image_width % n
  IN  /\ \A w \in DOMAIN specs :
           /\ specs[w].x0 = (IF w = 0 THEN 0 ELSE r + w * q)
           /\ specs[w].x1 = (IF w = 0 THEN q + r ELSE r + (w + 1) * q)
           /\ specs[w].y0 = 0
           /\ specs[w].y1 = image_height
           /\ RangeOf(specs[w]) \subseteq ImagePixels
      /\ \A v, w \in DOMAIN specs : v # w => RangeOf(specs[v]) \cap RangeOf(specs[w]) = {}
      /\ UNION {RangeOf(specs[w]) : w \in DOMAIN specs} = ImagePixels
      /\ \A px \in ImagePixels :
           Cardinality({w \in DOMAIN specs : px \in RangeOf(specs[w])}) = 1

\* C13: for every image width and every number n >= 1 of workers the ranges
\* handed out in the Starting state (worker 0 the columns [0, width/n +
\* width%n), worker i > 0 the columns [width%n + i*(width/n), width%n +
\* (i+1)*(width/n)), all the rows) are pairwise disjoint and their union is
\* the whole image, every pixel being in the range of exactly one worker; and
\* every coordinate a worker emits has x < image_width and y < image_height,
\* so that image_width*y + x is an index of the pixel buffer.
C13_BandsPartitionImage ==
  /\ [][(app_state = "Starting" /\ app_state' = "Computing") =>
          /\ \A w \in DOMAIN command_chan : Len(command_chan'[w]) = 1
          /\ PartitionImage([w \in DOMAIN command_chan |-> command_chan'[w][1]])]_vars
  /\ [](\A w \in DOMAIN worker :
          /\ worker[w].pc = "render" =>
               /\ worker[w].i < image_width
               /\ worker[w].j < image_height
               /\ image_width * worker[w].j + worker[w].i \in DOMAIN pixels
          /\ \A n \in 1 .. Len(sent[w]) :
               /\ sent[w][n].x < image_width
               /\ sent[w][n].y < image_height
               /\ IndexOf(sent[w][n]) \in DOMAIN pixels)

\* C13 witness: the width is not a multiple of the number of workers, there
\* are at least two workers, each with a band that is not empty, and each has
\* emitted a pixel of its band.
C13_Witness ==
  LET n == Cardinality(DOMAIN worker)
  IN  /\ app_state = "Computing"
      /\ n >= 2
      /\ image_width % n # 0
      /\ image_width \div n >= 1
      /\ \A w \in DOMAIN worker : sent[w] # <<>>

\* the coordinates of the results worker w has sent
SentPixels(w) == {<<sent[w][n].x, sent[w][n].y>> : n \in 1 .. Len(sent[w])}

\* worker w has sent no coordinate twice
SentOnce(w) == Cardinality(SentPixels(w)) = Len(sent[w])

\* the image is complete: every worker has sent every pixel of its band, and
\* every pixel of the buffer holds the colour its owner sent for it
Complete ==
  /\ app_state = "Computing"
  /\ \A w \in DOMAIN worker : SentPixels(w) = RangeOf(MakeSpec(w, current_gen))
  /\ \A k \in DOMAIN pixels :
       /\ pixels[k] # LIGHT_RED
       /\ \E w \in SendersOf(k) : pixels[k] = LastSent(w, k)

\* C14: progress to a complete image.  When every worker keeps running and
\* the consumer keeps being updated, eventually, and from then on for ever,
\* every pixel of the buffer has been overwritten by a result of the current
\* generation, so that no pixel keeps its placeholder; and the worker that
\* owns a band sends each of its coordinates exactly once for the spec it
\* processes: never twice, and in the end all of them.
C14_ProgressToCompleteImage ==
  /\ <>[]Complete
  /\ [](\A w \in DOMAIN worker :
          /\ SentOnce(w)
          /\ app_state = "Computing" => SentPixels(w) \subseteq RangeOf(MakeSpec(w, current_gen)))

\* C14 witness: an image of several pixels cut in bands for several workers
\* is complete, and every worker is back at the top of its loop, blocked on
\* its command channel.
C14_Witness ==
  /\ Complete
  /\ Cardinality(DOMAIN pixels) >= 2
  /\ Cardinality(DOMAIN worker) >= 2
  /\ \A w \in DOMAIN worker : worker[w].pc = "recv" /\ sent[w] # <<>>

\* worker w is at the top of its loop, in try_iter or in recv, and makes a step
AtLoopTop(w) ==
  /\ worker[w].pc \in {"try", "recv"}
  /\ worker'[w] # worker[w]

\* C15: at the top of each iteration of its loop a worker takes the most
\* recently sent of the WorkerSpecs queued on its command channel and
\* discards the older ones without rendering them; with none queued it
\* blocks until one arrives; and it returns from start exactly when the
\* channel is disconnected with nothing left queued, a spec queued before the
\* disconnect being still taken.
C15_TakesNewestSpec ==
  [][\A w \in Workers :
       /\ (AtLoopTop(w) /\ command_chan[w] # <<>>) =>
            /\ worker'[w].spec = command_chan[w][Len(command_chan[w])]
            /\ command_chan'[w] = <<>>
            /\ worker'[w].pc # "stopped"
       /\ (AtLoopTop(w) /\ command_chan[w] = <<>>) =>
            /\ worker'[w].spec = worker[w].spec
            /\ worker'[w].pc = (IF worker[w].pc = "recv" THEN "stopped" ELSE "recv")
            /\ worker'[w].pc = "stopped" => ~cmd_open]_vars

\* the parts of C15 on blocking and on stopping
C15_StopsWhenDisconnected ==
  [][\A w \in Workers :
       /\ (AtLoopTop(w) /\ command_chan[w] # <<>>) => worker'[w].pc # "stopped"
       /\ (AtLoopTop(w) /\ command_chan[w] = <<>>) =>
            /\ worker'[w].spec = worker[w].spec
            /\ worker'[w].pc = (IF worker[w].pc = "recv" THEN "stopped" ELSE "recv")
            /\ worker'[w].pc = "stopped" => ~cmd_open]_vars

\* the positions in the queue rs of the results of the current generation for
\* the pixel of index k
CurrentFor(rs, k) ==
  {n \in 1 .. Len(rs) : rs[n].gen = current_gen /\ IndexOf(rs[n]) = k}

\* C16: the consumer never writes a stale result into the pixel buffer.  A
\* received result whose generation is not current_gen leaves every pixel as
\* it was, and a result of the current generation changes the pixel at index
\* image_width*y + x and no other: when update receives the queued results,
\* a pixel no current result was for is unchanged and any other pixel gets
\* the colour of the last current result for it; no other step changes the
\* buffer.
C16_StaleResultsDropped ==
  [][app_state = "Computing" =>
       IF app_state' = "Computing" /\ result_chan # <<>> /\ result_chan' = <<>>
       THEN /\ DOMAIN pixels' = DOMAIN pixels
            /\ \A k \in DOMAIN pixels :
                 LET cur == CurrentFor(result_chan, k)
                 IN  pixels'[k] =
                       IF cur = {} THEN pixels[k]
                       ELSE result_chan[CHOOSE n \in cur : \A m \in cur : m <= n].color
       ELSE pixels' = pixels]_vars

\* C16 witness: update has received a stale result and a result of the
\* current generation for two different pixels: the pixel of the current one
\* has its colour, the pixel of the stale one has not the stale colour.
C16_Witness ==
  /\ app_state = "Computing"
  /\ result_chan = <<>>
  /\ \E m, n \in 1 .. Len(sent[0]) :
       LET stale == sent[0][m]
           fresh == sent[0][n]
       IN  /\ stale.gen # current_gen
           /\ fresh.gen = current_gen
           /\ IndexOf(stale) # IndexOf(fresh)
           /\ pixels[IndexOf(fresh)] = fresh.color
           /\ pixels[IndexOf(stale)] # stale.color
           /\ pixels[IndexOf(stale)] # pixels[IndexOf(fresh)]
====
